---- MODULE Spec2Model ----
(***************************************************************************)
(* express-jobly: the SQL clause builders (helpers/sql.js,                 *)
(* Company._sqlForCompaniesWhere) and the Company / Job repositories       *)
(* (models/company.js, models/job.js) over a relational store.             *)
(*                                                                         *)
(* JavaScript values are tagged records, so that a string, a number and    *)
(* null never compare equal.  A JavaScript object is the sequence of its   *)
(* own enumerable properties in iteration order: <<[k |-> key, v |-> val]>>*)
(* with distinct keys.                                                     *)
(***************************************************************************)
EXTENDS Integers, Sequences, FiniteSets, TLC

VARIABLES companies, jobs, nextId, call

vars == <<companies, jobs, nextId, call>>

\* Longest update / filter mapping handed to the builders.
MaxFields == 3
\* Largest id the jobs serial hands out (Job.create is disabled beyond it).
MaxJobs == 2

-----------------------------------------------------------------------------
(* JavaScript values *)

Str(s) == [t |-> "str", s |-> s]
Num(n) == [t |-> "num", n |-> n]
Func(s) == [t |-> "func", s |-> s]
Null == [t |-> "null"]
Undefined == [t |-> "undefined"]

\* ToBoolean, as `a || b` and `if (x)` apply it.
Truthy(v) ==
  CASE v.t = "str" -> v.s # ""
    [] v.t = "num" -> v.n # 0
    [] v.t = "func" -> TRUE
    [] OTHER -> FALSE

\* ToString, as a template literal `${v}` applies it.
ToStr(v) ==
  CASE v.t = "str" -> v.s
    [] v.t = "num" -> ToString(v.n)
    [] v.t = "func" -> v.s
    [] v.t = "null" -> "null"
    [] OTHER -> "undefined"

\* a > b on the values the filters carry: a comparison with undefined is false.
JsGreater(a, b) ==
  IF a.t = "num" /\ b.t = "num" THEN a.n > b.n ELSE FALSE

(* JavaScript objects *)

Range(s) == {s[i] : i \in 1..Len(s)}

ObjectKeys(o) == [i \in 1..Len(o) |-> o[i].k]
ObjectValues(o) == [i \in 1..Len(o) |-> o[i].v]
HasOwn(o, key) == \E i \in 1..Len(o) : o[i].k = key
OwnValue(o, key) == (CHOOSE p \in Range(o) : p.k = key).v

\* What every plain object inherits from Object.prototype (one member is kept).
ObjectPrototype ==
  <<[k |-> "constructor", v |-> Func("function Object() { [native code] }")]>>

\* o[key]: the own property, else the inherited one, else undefined.
GetProp(o, key) ==
  IF HasOwn(o, key) THEN OwnValue(o, key)
  ELSE IF HasOwn(ObjectPrototype, key) THEN OwnValue(ObjectPrototype, key)
  ELSE Undefined

\* o[key] = val on an existing own property (its position is kept).
SetProp(o, key, val) ==
  [i \in 1..Len(o) |-> IF o[i].k = key THEN [k |-> key, v |-> val] ELSE o[i]]

\* Array.prototype.join
RECURSIVE Join(_, _)
Join(parts, sep) ==
  IF Len(parts) = 0 THEN ""
  ELSE IF Len(parts) = 1 THEN parts[1]
  ELSE parts[1] \o sep \o Join(Tail(parts), sep)

\* The argument a caller leaves out.
NoTable == <<[k |-> "(no argument)", v |-> Undefined]>>

-----------------------------------------------------------------------------
(* helpers/sql.js *)

\* `"${jsToSql[colName] || colName}"=$${idx + 1}`: the column it names.
PartialUpdateColumnIgnoresTable(jsToSql, colName) ==
  colName

PartialUpdateColumn(jsToSql, colName) ==
  IF Truthy(GetProp(jsToSql, colName)) THEN ToStr(GetProp(jsToSql, colName))
  ELSE colName

\* The placeholder number of the fragment at (0-based) position idx.
PartialUpdateIndexOffByOne(idx) == idx

PartialUpdateIndex(idx) == idx + 1

PartialUpdateFragment(jsToSql, colName, idx) ==
  "\"" \o PartialUpdateColumn(jsToSql, colName) \o "\"=$"
       \o ToString(PartialUpdateIndex(idx))

\* The builder without its check for an empty mapping.
sqlForPartialUpdateAcceptsEmpty(dataToUpdate, jsToSql) ==
  [kind |-> "ok",
   cols |-> <<>>,
   assign |-> [i \in 1..Len(dataToUpdate) |->
                 [col |-> dataToUpdate[i].k, ph |-> i]],
   setCols |-> "",
   values |-> ObjectValues(dataToUpdate)]

\* The builder leaving out the fields whose value is null.
HoldsValue(p) == p.v # Null

sqlForPartialUpdateSkipsNull(dataToUpdate, jsToSql) ==
  LET kept == SelectSeq(dataToUpdate, HoldsValue)
      keys == ObjectKeys(kept)
  IN IF Len(dataToUpdate) = 0
       THEN [kind |-> "BadRequestError", message |-> "No data"]
     ELSE
       LET cols == [i \in 1..Len(keys) |->
                      PartialUpdateFragment(jsToSql, keys[i], i - 1)]
       IN [kind |-> "ok",
           cols |-> cols,
           assign |-> [i \in 1..Len(keys) |->
                         [col |-> PartialUpdateColumn(jsToSql, keys[i]),
                          ph |-> PartialUpdateIndex(i - 1)]],
           setCols |-> Join(cols, ", "),
           values |-> ObjectValues(kept)]

\* The builder's outcome: a throw, or {setCols, values}.  `cols` is the array
\* the code joins; `assign` is the same list as the store parses it.
sqlForPartialUpdate(dataToUpdate, jsToSql) ==
  LET keys == ObjectKeys(dataToUpdate) IN
  IF Len(keys) = 0
    THEN [kind |-> "BadRequestError", message |-> "No data"]
  ELSE IF jsToSql = NoTable
    THEN [kind |-> "TypeError",
          message |-> "Cannot read properties of undefined"]
  ELSE
    LET cols == [i \in 1..Len(keys) |->
                   PartialUpdateFragment(jsToSql, keys[i], i - 1)]
        assign == [i \in 1..Len(keys) |->
                     [col |-> PartialUpdateColumn(jsToSql, keys[i]),
                      ph |-> PartialUpdateIndex(i - 1)]]
    IN [kind |-> "ok",
        cols |-> cols,
        assign |-> assign,
        setCols |-> Join(cols, ", "),
        values |-> ObjectValues(dataToUpdate)]

-----------------------------------------------------------------------------
(* models/company.js: Company._sqlForCompaniesWhere *)

\* The predicate one recognised key pushes, numbered idx + 1.
CompanyPredicate(colName, idx) ==
  CASE colName = "nameLike" ->
         [col |-> "name", op |-> "ILIKE", ph |-> idx + 1,
          text |-> "name ILIKE $" \o ToString(idx + 1)]
    [] colName = "minEmployees" ->
         [col |-> "num_employees", op |-> ">=", ph |-> idx + 1,
          text |-> "num_employees >= $" \o ToString(idx + 1)]
    [] colName = "maxEmployees" ->
         [col |-> "num_employees", op |-> "<=", ph |-> idx + 1,
          text |-> "num_employees <= $" \o ToString(idx + 1)]

CompanyFilterKeys == {"nameLike", "minEmployees", "maxEmployees"}

\* `%${dataToFilter[colName]}%`
WrapWildcardsBare(v) == Str(ToStr(v))

WrapWildcards(v) == Str("%" \o ToStr(v) \o "%")

\* The for-in loop from property i on: st = [data, preds, idx] is the loop's
\* state (the caller's object, the pushed predicates, the counter).
RECURSIVE CompaniesWhereLoop(_, _)
CompaniesWhereLoop(st, i) ==
  IF i > Len(st.data) THEN st
  ELSE
    LET colName == st.data[i].k IN
    IF colName = "nameLike" THEN
      CompaniesWhereLoop(
        [data |-> SetProp(st.data, colName, WrapWildcards(st.data[i].v)),
         preds |-> Append(st.preds, CompanyPredicate(colName, st.idx)),
         idx |-> st.idx + 1], i + 1)
    ELSE IF colName \in {"minEmployees", "maxEmployees"} THEN
      CompaniesWhereLoop(
        [data |-> st.data,
         preds |-> Append(st.preds, CompanyPredicate(colName, st.idx)),
         idx |-> st.idx + 1], i + 1)
    ELSE CompaniesWhereLoop(st, i + 1)

\* {whereCols, values}, with the parsed predicates (preds), the array the code
\* joins (cols) and the caller's object as the call leaves it (dataToFilter).
sqlForCompaniesWhere(dataToFilter) ==
  IF Len(ObjectKeys(dataToFilter)) = 0
    THEN [whereCols |-> "", values |-> <<>>, cols |-> <<>>, preds |-> <<>>,
          dataToFilter |-> dataToFilter]
  ELSE
    LET st == CompaniesWhereLoop(
                [data |-> dataToFilter, preds |-> <<>>, idx |-> 0], 1)
        cols == [i \in 1..Len(st.preds) |-> st.preds[i].text]
    IN IF Len(cols) = 0
         THEN [whereCols |-> "", values |-> <<>>, cols |-> <<>>,
               preds |-> <<>>, dataToFilter |-> st.data]
         ELSE [whereCols |-> "WHERE " \o Join(cols, " AND "),
               values |-> ObjectValues(st.data),
               cols |-> cols,
               preds |-> st.preds,
               dataToFilter |-> st.data]

-----------------------------------------------------------------------------
(* Inputs of the builders *)

\* Every object of at most n own properties over `fields`, in every property
\* order, each property's value drawn from valuesOf[field].
RECURSIVE Mappings(_, _, _)
Mappings(fields, valuesOf, n) ==
  IF n = 0 THEN {<<>>}
  ELSE
    LET shorter == Mappings(fields, valuesOf, n - 1)
        grow == {p \in shorter \X fields :
                   Len(p[1]) = n - 1 /\ ~HasOwn(p[1], p[2])}
    IN shorter \cup
       UNION {{Append(p[1], [k |-> p[2], v |-> x]) : x \in valuesOf[p[2]]} :
                p \in grow}

\* The translation tables the repository passes (company.js:175-178,
\* job.js:157), the one of the helper's test, and a call that passes none.
CompanyJsToSql ==
  <<[k |-> "numEmployees", v |-> Str("num_employees")],
    [k |-> "logoUrl", v |-> Str("logo_url")]>>
JobJsToSql == <<>>
TestJsToSql == <<[k |-> "firstName", v |-> Str("first_name")]>>
Tables == {CompanyJsToSql, JobJsToSql, TestJsToSql, NoTable}

UpdateFields ==
  {"firstName", "age", "name", "numEmployees", "logoUrl", "constructor"}
UpdateValuesOf ==
  [f \in UpdateFields |->
     CASE f = "firstName" -> {Str("Aliya")}
       [] f = "age" -> {Num(32)}
       [] f = "name" -> {Str("New")}
       [] f = "numEmployees" -> {Num(10), Null}
       [] f = "logoUrl" -> {Null}
       [] f = "constructor" -> {Str("x")}]
UpdateMappings == Mappings(UpdateFields, UpdateValuesOf, MaxFields)

FilterFields == CompanyFilterKeys \cup {"foo", "title"}
FilterValuesOf ==
  [f \in FilterFields |->
     CASE f = "nameLike" -> {Str("hall"), Str("net")}
       [] f = "minEmployees" -> {Num(1), Num(3)}
       [] f = "maxEmployees" -> {Num(2)}
       [] f = "foo" -> {Str("x")}
       [] f = "title" -> {Str("j1")}]
FilterMappings == Mappings(FilterFields, FilterValuesOf, MaxFields)

-----------------------------------------------------------------------------
(* The builders called on their own, as helpers/sql.test.js calls them: the
   arguments are drawn first, then the builder is applied to them. *)

PartialUpdateArgs ==
  {[op |-> "args", fn |-> "sqlForPartialUpdate", data |-> d, jsToSql |-> t] :
     d \in UpdateMappings, t \in Tables}

CompaniesWhereArgs ==
  {[op |-> "args", fn |-> "_sqlForCompaniesWhere", data |-> d] :
     d \in FilterMappings}

InitBuilder ==
  /\ companies = {}
  /\ jobs = {}
  /\ nextId = 1
  /\ call \in PartialUpdateArgs \cup CompaniesWhereArgs

CallSqlForPartialUpdate ==
  /\ call.op = "args"
  /\ call.fn = "sqlForPartialUpdate"
  /\ call' = [op |-> "sqlForPartialUpdate",
              data |-> call.data,
              jsToSql |-> call.jsToSql,
              out |-> sqlForPartialUpdate(call.data, call.jsToSql)]
  /\ UNCHANGED <<companies, jobs, nextId>>

CallSqlForCompaniesWhere ==
  /\ call.op = "args"
  /\ call.fn = "_sqlForCompaniesWhere"
  /\ call' = [op |-> "_sqlForCompaniesWhere",
              data |-> call.data,
              out |-> sqlForCompaniesWhere(call.data)]
  /\ UNCHANGED <<companies, jobs, nextId>>

\* The caller builds the clause once more from the same object, which is as
\* the first call left it.
CallSqlForCompaniesWhereAgain ==
  /\ call.op = "_sqlForCompaniesWhere"
  /\ call' = [op |-> "_sqlForCompaniesWhere again",
              data |-> call.data,
              first |-> call.out,
              out |-> sqlForCompaniesWhere(call.out.dataToFilter)]
  /\ UNCHANGED <<companies, jobs, nextId>>

NextBuilder ==
  \/ CallSqlForPartialUpdate
  \/ CallSqlForCompaniesWhere
  \/ CallSqlForCompaniesWhereAgain

SpecBuilder == InitBuilder /\ [][NextBuilder]_vars

-----------------------------------------------------------------------------
(* The store: what the statements of the repositories do to the tables *)

CompanyColumns == {"handle", "name", "description", "num_employees", "logo_url"}
JobColumns == {"id", "title", "salary", "equity", "company_handle"}

\* RETURNING / SELECT ... num_employees AS "numEmployees", logo_url AS "logoUrl"
CompanyShape(r) ==
  [handle |-> r.handle, name |-> r.name, description |-> r.description,
   numEmployees |-> r.num_employees, logoUrl |-> r.logo_url]

\* The job row without the alias of company_handle.
JobShapeUnaliased(r) ==
  [id |-> r.id, title |-> r.title, salary |-> r.salary, equity |-> r.equity,
   company_handle |-> r.company_handle]

\* RETURNING / SELECT ... company_handle AS "companyHandle"
JobShape(r) ==
  [id |-> r.id, title |-> r.title, salary |-> r.salary, equity |-> r.equity,
   companyHandle |-> r.company_handle]

\* SELECT id, title, salary, equity FROM jobs WHERE company_handle = $1
NestedJobShape(r) ==
  [id |-> r.id, title |-> r.title, salary |-> r.salary, equity |-> r.equity]

Statement(text, values) == [text |-> text, values |-> values]

\* UPDATE <table> SET <assign> WHERE <keyCol> = $keyPh RETURNING ..., bound to
\* `values`: the rows after it, and the rows it returns.  It fails on a column
\* the table does not have, on a column assigned twice, and on a key that
\* would become null or equal to another row's.
ExecUpdate(rows, columns, keyCol, assign, values, keyPh) ==
  LET matched == {r \in rows : r[keyCol] = values[keyPh]}
      updated(r) ==
        [c \in columns |->
           IF \E i \in 1..Len(assign) : assign[i].col = c
             THEN values[assign[CHOOSE i \in 1..Len(assign) :
                                  assign[i].col = c].ph]
             ELSE r[c]]
      unknownColumn == \E i \in 1..Len(assign) : assign[i].col \notin columns
      twice == \E i, j \in 1..Len(assign) :
                 i # j /\ assign[i].col = assign[j].col
  IN IF unknownColumn \/ twice
       THEN [kind |-> "StoreError", rows |-> rows, returned |-> {},
             matched |-> {}]
     ELSE IF \E r \in matched :
               \/ updated(r)[keyCol] = Null
               \/ \E o \in rows \ {r} : o[keyCol] = updated(r)[keyCol]
       THEN [kind |-> "StoreError", rows |-> rows, returned |-> {},
             matched |-> {}]
     ELSE [kind |-> "ok",
           rows |-> (rows \ matched) \cup {updated(r) : r \in matched},
           returned |-> {updated(r) : r \in matched},
           matched |-> matched]

\* Lower-casing of the letters the model's texts use.
LowerChar(c) ==
  CASE c = "H" -> "h"
    [] c = "B" -> "b"
    [] c = "J" -> "j"
    [] c = "A" -> "a"
    [] c = "L" -> "l"
    [] OTHER -> c

\* text LIKE pattern, % matching any run of characters and _ any one.
RECURSIVE Like(_, _)
Like(text, pattern) ==
  IF Len(pattern) = 0 THEN Len(text) = 0
  ELSE
    LET p == SubSeq(pattern, 1, 1)
        restP == SubSeq(pattern, 2, Len(pattern))
        restT == SubSeq(text, 2, Len(text))
    IN IF p = "%"
         THEN Like(text, restP) \/ (Len(text) > 0 /\ Like(restT, pattern))
       ELSE IF Len(text) = 0 THEN FALSE
       ELSE (p = "_" \/ p = SubSeq(text, 1, 1)) /\ Like(restT, restP)

RECURSIVE Lower(_)
Lower(text) ==
  IF Len(text) = 0 THEN ""
  ELSE LowerChar(SubSeq(text, 1, 1)) \o Lower(SubSeq(text, 2, Len(text)))

\* text ILIKE pattern
ILike(text, pattern) == Like(Lower(text), Lower(pattern))

\* One predicate of a WHERE clause on row r: a comparison with NULL is not
\* true.
HoldsPredicate(r, pred, values) ==
  LET cell == r[pred.col]
      arg == values[pred.ph]
  IN CASE pred.op = "ILIKE" ->
            cell.t = "str" /\ arg.t = "str" /\ ILike(cell.s, arg.s)
       [] pred.op = ">=" -> cell.t = "num" /\ arg.t = "num" /\ cell.n >= arg.n
       [] pred.op = "<=" -> cell.t = "num" /\ arg.t = "num" /\ cell.n <= arg.n

\* The order of the texts the model uses under ORDER BY.
Collation == <<"Bauer", "Hall", "j1", "j2">>
TextRank(v) == CHOOSE i \in 1..Len(Collation) : Collation[i] = v.s

\* The ways ORDER BY <col> can return the rows of S (ties in any order).
OrderedBy(S, col) ==
  {q \in [1..Cardinality(S) -> S] :
     /\ \A i, j \in 1..Cardinality(S) : i # j => q[i] # q[j]
     /\ \A i, j \in 1..Cardinality(S) :
          i < j => TextRank(q[i][col]) <= TextRank(q[j][col])}

CompanyShapes(q) == [i \in 1..Len(q) |-> CompanyShape(q[i])]
JobShapes(q) == [i \in 1..Len(q) |-> JobShape(q[i])]

-----------------------------------------------------------------------------
(* The repositories: one action per method, the whole call in one step *)

\* What a finished call leaves behind: its arguments (key, data), how it ended
\* (kind: "ok" or the error thrown), whether it reached a clause builder
\* (built), the statements it sent to the store (sent), the rows it returned
\* (rows), and the caller's data object as the call left it (after).
Done(op, key, data, kind, built, sent, rows, after) ==
  [op |-> op, key |-> key, data |-> data, kind |-> kind, built |-> built,
   sent |-> sent, rows |-> rows, after |-> after]

Init ==
  /\ companies = {}
  /\ jobs = {}
  /\ nextId = 1
  /\ call = [op |-> "none"]

(* Arguments the callers pass *)

CompanyCreateInputs ==
  {[handle |-> Str("c1"), name |-> Str("Hall"), description |-> Str("d"),
    numEmployees |-> Num(1), logoUrl |-> Null],
   [handle |-> Str("c2"), name |-> Str("Bauer"), description |-> Str("d"),
    numEmployees |-> Num(3), logoUrl |-> Null]}

CompanyKeys == {Str("c1"), Str("nope")}

CompanyFilterInputs ==
  {<<>>,
   <<[k |-> "nameLike", v |-> Str("hall")]>>,
   <<[k |-> "maxEmployees", v |-> Num(2)]>>,
   <<[k |-> "minEmployees", v |-> Num(2)], [k |-> "maxEmployees", v |-> Num(2)]>>,
   <<[k |-> "minEmployees", v |-> Num(5)], [k |-> "maxEmployees", v |-> Num(2)]>>,
   <<[k |-> "maxEmployees", v |-> Num(2)], [k |-> "minEmployees", v |-> Num(5)]>>,
   <<[k |-> "nameLike", v |-> Str("hall")], [k |-> "minEmployees", v |-> Num(3)],
     [k |-> "maxEmployees", v |-> Num(1)]>>,
   <<[k |-> "foo", v |-> Str("x")], [k |-> "nameLike", v |-> Str("hall")]>>}

CompanyUpdateInputs ==
  {<<>>,
   <<[k |-> "name", v |-> Str("Bauer")], [k |-> "numEmployees", v |-> Null]>>,
   <<[k |-> "handle", v |-> Str("c2")]>>}

\* The jobs that refer to a company of `gone`.  What the schema's foreign key
\* does when such a company is deleted or renamed is not in the sources: the
\* model leaves those calls out (DELETE and UPDATE of companies are taken only
\* when no job refers to the row).
Referring(gone) == {j \in jobs : \E r \in gone : j.company_handle = r.handle}

(* models/company.js *)

\* A lookup that finds nothing.
SelectCompanyFindsNone(handle) == {}

SelectCompany(handle) == {r \in companies : r.handle = handle}

CreateCompany ==
  \E data \in CompanyCreateInputs :
    LET check == Statement("SELECT handle FROM companies WHERE handle = $1",
                           <<data.handle>>)
        insert == Statement(
          "INSERT INTO companies (handle, name, description, num_employees, logo_url) VALUES ($1, $2, $3, $4, $5) RETURNING handle, name, description, num_employees AS \"numEmployees\", logo_url AS \"logoUrl\"",
          <<data.handle, data.name, data.description, data.numEmployees,
            data.logoUrl>>)
        row == [handle |-> data.handle, name |-> data.name,
                description |-> data.description,
                num_employees |-> data.numEmployees,
                logo_url |-> data.logoUrl]
    IN IF SelectCompany(data.handle) # {}
         THEN /\ call' = Done("Company.create", data.handle, data,
                              "BadRequestError", FALSE, <<check>>, <<>>, data)
              /\ UNCHANGED <<companies, jobs, nextId>>
         ELSE /\ companies' = companies \cup {row}
              /\ call' = Done("Company.create", data.handle, data, "ok", FALSE,
                              <<check, insert>>, <<CompanyShape(row)>>, data)
              /\ UNCHANGED <<jobs, nextId>>

\* filters.minEmployees > filters.maxEmployees
MinExceedsMaxNever(filters) == FALSE

MinExceedsMax(filters) ==
  JsGreater(GetProp(filters, "minEmployees"), GetProp(filters, "maxEmployees"))

FindAllCompanies ==
  \E filters \in CompanyFilterInputs :
    /\ IF MinExceedsMax(filters)
         THEN call' = Done("Company.findAll", Null, filters, "BadRequestError",
                           FALSE, <<>>, <<>>, filters)
         ELSE
           LET w == sqlForCompaniesWhere(filters)
               select == Statement(
                 "SELECT handle, name, description, num_employees AS \"numEmployees\", logo_url AS \"logoUrl\" FROM companies "
                   \o w.whereCols \o " ORDER BY name", w.values)
               found == {r \in companies :
                           \A i \in 1..Len(w.preds) :
                             HoldsPredicate(r, w.preds[i], w.values)}
           IN IF Len(w.values) # Len(w.preds)
                \* the statement has fewer placeholders than values were bound
                THEN call' = Done("Company.findAll", Null, filters,
                                  "StoreError", TRUE, <<select>>, <<>>,
                                  w.dataToFilter)
                ELSE call' \in
                       {Done("Company.findAll", Null, filters, "ok", TRUE,
                             <<select>>, CompanyShapes(q),
                             w.dataToFilter) :
                          q \in OrderedBy(found, "name")}
    /\ UNCHANGED <<companies, jobs, nextId>>

GetCompany ==
  \E handle \in CompanyKeys :
    LET first == Statement(
          "SELECT handle, name, description, num_employees AS \"numEmployees\", logo_url AS \"logoUrl\" FROM companies WHERE handle = $1",
          <<handle>>)
        second == Statement(
          "SELECT id, title, salary, equity FROM jobs WHERE company_handle = $1",
          <<handle>>)
        company == SelectCompany(handle)
        theirJobs == {NestedJobShape(j) : j \in {x \in jobs : x.company_handle = handle}}
    IN /\ IF company = {}
            THEN call' = Done("Company.get", handle, <<>>, "NotFoundError",
                              FALSE, <<first>>, <<>>, <<>>)
            ELSE call' =
                   Done("Company.get", handle, <<>>, "ok", FALSE,
                        <<first, second>>,
                        <<[company |-> CompanyShape(CHOOSE r \in company : TRUE),
                           jobs |-> theirJobs]>>, <<>>)
       /\ UNCHANGED <<companies, jobs, nextId>>

\* The key predicate numbered like the last assignment.
KeyIndexReusesLast(values) == Len(values)

\* const handleVarIdx = "$" + (values.length + 1)
KeyIndex(values) == Len(values) + 1

UpdateStatement(table, keyCol, returning, setCols, values, key) ==
  Statement("UPDATE " \o table \o " SET " \o setCols \o " WHERE " \o keyCol
              \o " = $" \o ToString(KeyIndex(values)) \o " RETURNING "
              \o returning,
            Append(values, key))

UpdateCompany ==
  \E handle \in CompanyKeys, data \in CompanyUpdateInputs :
    LET b == sqlForPartialUpdate(data, CompanyJsToSql) IN
    IF b.kind # "ok"
      THEN /\ call' = Done("Company.update", handle, data, b.kind, TRUE, <<>>,
                           <<>>, data)
           /\ UNCHANGED <<companies, jobs, nextId>>
      ELSE
        LET update == UpdateStatement(
              "companies", "handle",
              "handle, name, description, num_employees AS \"numEmployees\", logo_url AS \"logoUrl\"",
              b.setCols, b.values, handle)
            x == ExecUpdate(companies, CompanyColumns, "handle", b.assign,
                            update.values, KeyIndex(b.values))
            renamed == {r \in x.matched : r.handle \notin
                                             {n.handle : n \in x.returned}}
        IN IF x.kind # "ok"
             THEN /\ call' = Done("Company.update", handle, data, "StoreError",
                                  TRUE, <<update>>, <<>>, data)
                  /\ UNCHANGED <<companies, jobs, nextId>>
           ELSE IF x.returned = {}
             THEN /\ call' = Done("Company.update", handle, data,
                                  "NotFoundError", TRUE, <<update>>, <<>>, data)
                  /\ UNCHANGED <<companies, jobs, nextId>>
           ELSE
             /\ Referring(renamed) = {}
             /\ companies' = x.rows
             /\ call' = Done("Company.update", handle, data, "ok", TRUE,
                             <<update>>,
                             <<CompanyShape(CHOOSE n \in x.returned : TRUE)>>,
                             data)
             /\ UNCHANGED <<jobs, nextId>>

RemoveCompany ==
  \E handle \in CompanyKeys :
    LET delete == Statement(
          "DELETE FROM companies WHERE handle = $1 RETURNING handle",
          <<handle>>)
        gone == SelectCompany(handle)
    IN IF gone = {}
         THEN /\ call' = Done("Company.remove", handle, <<>>, "NotFoundError",
                              FALSE, <<delete>>, <<>>, <<>>)
              /\ UNCHANGED <<companies, jobs, nextId>>
         ELSE /\ Referring(gone) = {}
              /\ companies' = companies \ gone
              /\ call' = Done("Company.remove", handle, <<>>, "ok", FALSE,
                              <<delete>>, <<>>, <<>>)
              /\ UNCHANGED <<jobs, nextId>>

(* models/job.js *)

Bool(b) == [t |-> "bool", b |-> b]

JobCreateInputs ==
  {[title |-> Str("j1"), salary |-> Num(1), equity |-> Str("0.1"),
    companyHandle |-> Str("c1")],
   [title |-> Str("j2"), salary |-> Num(2), equity |-> Str("0"),
    companyHandle |-> Str("c2")],
   [title |-> Str("j1"), salary |-> Num(1), equity |-> Str("0.1"),
    companyHandle |-> Str("nope")]}

JobKeys == {Num(1), Num(-1)}

\* A WHERE clause that holds of every row.
SelectJobAnyRow(id) == jobs

\* ... FROM jobs WHERE id = $1
SelectJob(id) == {j \in jobs : j.id = id}

JobFilterInputs ==
  {<<>>,
   <<[k |-> "title", v |-> Str("J2")]>>,
   <<[k |-> "minSalary", v |-> Num(2)]>>,
   <<[k |-> "hasEquity", v |-> Bool(TRUE)]>>,
   <<[k |-> "hasEquity", v |-> Bool(FALSE)]>>,
   <<[k |-> "title", v |-> Str("j1")], [k |-> "minSalary", v |-> Num(1)]>>,
   <<[k |-> "minSalary", v |-> Num(-1)]>>,
   <<[k |-> "invalidFilter", v |-> Str("invalid")]>>}

JobUpdateInputs ==
  {<<>>,
   <<[k |-> "salary", v |-> Null], [k |-> "equity", v |-> Null]>>,
   <<[k |-> "id", v |-> Num(1)], [k |-> "company_handle", v |-> Str("c2")],
     [k |-> "title", v |-> Str("j2")]>>,
   <<[k |-> "company_handle", v |-> Str("c2")]>>,
   <<[k |-> "companyHandle", v |-> Str("c2")]>>,
   <<[k |-> "id", v |-> Num(1)], [k |-> "companyHandle", v |-> Str("c2")],
     [k |-> "title", v |-> Str("j2")]>>}

CreateJob ==
  \E data \in JobCreateInputs :
    LET check == Statement("SELECT handle FROM companies WHERE handle = $1",
                           <<data.companyHandle>>)
        insert == Statement(
          "INSERT INTO jobs (title, salary, equity, company_handle) VALUES ($1, $2, $3, $4) RETURNING id, title, salary, equity, company_handle AS \"companyHandle\"",
          <<data.title, data.salary, data.equity, data.companyHandle>>)
        row == [id |-> Num(nextId), title |-> data.title,
                salary |-> data.salary, equity |-> data.equity,
                company_handle |-> data.companyHandle]
    IN IF SelectCompany(data.companyHandle) = {}
         THEN /\ call' = Done("Job.create", Null, data, "BadRequestError",
                              FALSE, <<check>>, <<>>, data)
              /\ UNCHANGED <<companies, jobs, nextId>>
         ELSE /\ nextId <= MaxJobs
              /\ jobs' = jobs \cup {row}
              /\ nextId' = nextId + 1
              /\ call' = Done("Job.create", Null, data, "ok", FALSE,
                              <<check, insert>>, <<JobShape(row)>>, data)
              /\ UNCHANGED companies

\* static async findAll(): the method declares no parameter, so the filters a
\* caller passes are not read.
FindAllJobs ==
  \E filters \in JobFilterInputs :
    LET select == Statement(
          "SELECT id, title, salary, equity, company_handle AS \"companyHandle\" FROM jobs ORDER BY title",
          <<>>)
    IN /\ call' \in {Done("Job.findAll", Null, filters, "ok", FALSE,
                          <<select>>, JobShapes(q), filters) :
                       q \in OrderedBy(jobs, "title")}
       /\ UNCHANGED <<companies, jobs, nextId>>

GetJob ==
  \E id \in JobKeys :
    LET select == Statement(
          "SELECT id, title, salary, equity, company_handle AS \"companyHandle\" FROM jobs WHERE id = $1",
          <<id>>)
        job == SelectJob(id)
    IN /\ IF job = {}
            THEN call' = Done("Job.get", id, <<>>, "NotFoundError", FALSE,
                              <<select>>, <<>>, <<>>)
            ELSE call' = Done("Job.get", id, <<>>, "ok", FALSE, <<select>>,
                              <<JobShape(CHOOSE j \in job : TRUE)>>, <<>>)
       /\ UNCHANGED <<companies, jobs, nextId>>

\* data.id !== undefined || data.company_handle !== undefined
SetsJobKey(data) ==
  GetProp(data, "id") # Undefined \/ GetProp(data, "company_handle") # Undefined

UpdateJob ==
  \E id \in JobKeys, data \in JobUpdateInputs :
    IF SetsJobKey(data)
      THEN /\ call' = Done("Job.update", id, data, "BadRequestError", FALSE,
                           <<>>, <<>>, data)
           /\ UNCHANGED <<companies, jobs, nextId>>
      ELSE
        LET b == sqlForPartialUpdate(data, JobJsToSql) IN
        IF b.kind # "ok"
          THEN /\ call' = Done("Job.update", id, data, b.kind, TRUE, <<>>,
                               <<>>, data)
               /\ UNCHANGED <<companies, jobs, nextId>>
          ELSE
            LET update == UpdateStatement(
                  "jobs", "id",
                  "id, title, salary, equity, company_handle AS \"companyHandle\"",
                  b.setCols, b.values, id)
                x == ExecUpdate(jobs, JobColumns, "id", b.assign,
                                update.values, KeyIndex(b.values))
            IN IF x.kind # "ok"
                 THEN /\ call' = Done("Job.update", id, data, "StoreError",
                                      TRUE, <<update>>, <<>>, data)
                      /\ UNCHANGED <<companies, jobs, nextId>>
               ELSE IF x.returned = {}
                 THEN /\ call' = Done("Job.update", id, data, "NotFoundError",
                                      TRUE, <<update>>, <<>>, data)
                      /\ UNCHANGED <<companies, jobs, nextId>>
               ELSE
                 /\ jobs' = x.rows
                 /\ call' = Done("Job.update", id, data, "ok", TRUE,
                                 <<update>>,
                                 <<JobShape(CHOOSE n \in x.returned : TRUE)>>,
                                 data)
                 /\ UNCHANGED <<companies, nextId>>

RemoveJob ==
  \E id \in JobKeys :
    LET delete == Statement("DELETE FROM jobs WHERE id = $1 RETURNING id",
                            <<id>>)
        gone == SelectJob(id)
    IN IF gone = {}
         THEN /\ call' = Done("Job.remove", id, <<>>, "NotFoundError", FALSE,
                              <<delete>>, <<>>, <<>>)
              /\ UNCHANGED <<companies, jobs, nextId>>
         ELSE /\ jobs' = jobs \ gone
              /\ call' = Done("Job.remove", id, <<>>, "ok", FALSE, <<delete>>,
                              <<>>, <<>>)
              /\ UNCHANGED <<companies, nextId>>

Next ==
  \/ CreateCompany
  \/ FindAllCompanies
  \/ GetCompany
  \/ UpdateCompany
  \/ RemoveCompany
  \/ CreateJob
  \/ FindAllJobs
  \/ GetJob
  \/ UpdateJob
  \/ RemoveJob

Spec == Init /\ [][Next]_vars

-----------------------------------------------------------------------------
(* Company.create called by two callers at once: each call awaits its lookup
   and then its INSERT, with no transaction around the two, so the steps of
   the two calls interleave in any order. *)

Callers == {1, 2}

\* The row the INSERT of Company.create writes.
CompanyRow(data) ==
  [handle |-> data.handle, name |-> data.name,
   description |-> data.description, num_employees |-> data.numEmployees,
   logo_url |-> data.logoUrl]

\* INSERT INTO companies ...: the store refuses a second row with a handle
\* that is stored already (the handle is the table's key).
ExecInsertCompany(rows, row) ==
  IF \E r \in rows : r.handle = row.handle
    THEN [kind |-> "StoreError", rows |-> rows, returned |-> {}]
    ELSE [kind |-> "ok", rows |-> rows \cup {row}, returned |-> {row}]

\* if (duplicateCheck.rows[0])
DuplicateFoundNever(found) == FALSE

DuplicateFound(found) == found # {}

\* A call that has not started: its argument, and what it will record.
RaceCall(data) ==
  [pc |-> "lookup", data |-> data, seen |-> FALSE, kind |-> "running",
   rows |-> <<>>, lookupAt |-> 0, insertAt |-> 0]

\* The arguments of the two calls: those of the single caller, and handle c1
\* once more with other fields.
RaceInputs ==
  CompanyCreateInputs \cup
    {[handle |-> Str("c1"), name |-> Str("Bauer"), description |-> Str("d2"),
      numEmployees |-> Num(3), logoUrl |-> Null]}

\* The tables the two calls can start on.
RaceStores == {{}} \cup {{CompanyRow(d)} : d \in RaceInputs}

InitRace ==
  /\ companies \in RaceStores
  /\ jobs = {}
  /\ nextId = 1
  /\ call \in {[op |-> "race", clock |-> 0,
                 procs |-> [p \in Callers |->
                              RaceCall(IF p = 1 THEN d1 ELSE d2)]] :
                  d1 \in RaceInputs, d2 \in RaceInputs}

\* const duplicateCheck = await db.query(SELECT ...); if (duplicateCheck.rows[0])
\* throw new BadRequestError(...)
RaceLookup(p) ==
  LET me == call.procs[p]
      seen == DuplicateFound(SelectCompany(me.data.handle))
      now == call.clock + 1
  IN /\ me.pc = "lookup"
     /\ call' = [call EXCEPT
                   !.clock = now,
                   !.procs[p] =
                     IF seen
                       THEN [me EXCEPT !.pc = "done", !.seen = TRUE,
                                       !.kind = "BadRequestError",
                                       !.lookupAt = now]
                       ELSE [me EXCEPT !.pc = "insert", !.lookupAt = now]]
     /\ UNCHANGED <<companies, jobs, nextId>>

\* const result = await db.query(INSERT ...); return result.rows[0]
RaceInsert(p) ==
  LET me == call.procs[p]
      x == ExecInsertCompany(companies, CompanyRow(me.data))
      now == call.clock + 1
  IN /\ me.pc = "insert"
     /\ companies' = x.rows
     /\ call' = [call EXCEPT
                   !.clock = now,
                   !.procs[p] =
                     IF x.kind = "ok"
                       THEN [me EXCEPT !.pc = "done", !.kind = "ok",
                                       !.insertAt = now,
                                       !.rows = <<CompanyShape(CompanyRow(me.data))>>]
                       ELSE [me EXCEPT !.pc = "done", !.kind = "StoreError",
                                       !.insertAt = now]]
     /\ UNCHANGED <<jobs, nextId>>

CallerLooksUp == \E p \in Callers : RaceLookup(p)
CallerInserts == \E p \in Callers : RaceInsert(p)

NextRace == CallerLooksUp \/ CallerInserts

SpecRace == InitRace /\ [][NextRace]_vars

-----------------------------------------------------------------------------
(* The mutating job routes behind the admin guard: POST /jobs,
   PATCH /jobs/:id and DELETE /jobs/:id.  A request carries res.locals as the
   authentication step left it; the route runs the guard and then the
   repository method. *)

Obj(o) == [t |-> "obj", o |-> o]

\* res.locals of the callers: no user (anonymous), a user object without
\* fields, a logged-in user who is not an admin, and an admin.
Locals ==
  {<<>>,
   <<[k |-> "user", v |-> Obj(<<>>)]>>,
   <<[k |-> "user", v |-> Obj(<<[k |-> "username", v |-> Str("test")],
                                [k |-> "isAdmin", v |-> Bool(FALSE)]>>)]>>,
   <<[k |-> "user", v |-> Obj(<<[k |-> "username", v |-> Str("test")],
                                [k |-> "isAdmin", v |-> Bool(TRUE)]>>)]>>}

\* A guard that asks for a login only.
EnsureLoggedIn(locals) ==
  LET user == GetProp(locals, "user")
  IN user.t = "obj" /\ GetProp(user.o, "username") # Undefined

\* ensureIsAdmin passes the request on (TRUE) or throws UnauthorizedError.
EnsureIsAdmin(locals) ==
  LET user == GetProp(locals, "user")
  IN user.t = "obj" /\ GetProp(user.o, "isAdmin") = Bool(TRUE)

Unauthorized(request) ==
  [op |-> "response", status |-> 401, kind |-> "UnauthorizedError",
   request |-> request]

JobRequests ==
  {[op |-> "request", route |-> "POST /jobs", locals |-> l, key |-> Null,
    body |-> d] : l \in Locals, d \in JobCreateInputs}
  \cup
  {[op |-> "request", route |-> "PATCH /jobs/:id", locals |-> l, key |-> id,
    body |-> d] : l \in Locals, id \in JobKeys, d \in JobUpdateInputs}
  \cup
  {[op |-> "request", route |-> "DELETE /jobs/:id", locals |-> l, key |-> id,
    body |-> <<>>] : l \in Locals, id \in JobKeys}

\* The tables a request can meet: nothing stored, company c1 stored, and
\* company c1 with job 1.
RouteStores ==
  LET c1 == [handle |-> Str("c1"), name |-> Str("Hall"),
             description |-> Str("d"), num_employees |-> Num(1),
             logo_url |-> Null]
      j1 == [id |-> Num(1), title |-> Str("j1"), salary |-> Num(1),
             equity |-> Str("0.1"), company_handle |-> Str("c1")]
  IN {[companies |-> {}, jobs |-> {}, nextId |-> 1],
      [companies |-> {c1}, jobs |-> {}, nextId |-> 1],
      [companies |-> {c1}, jobs |-> {j1}, nextId |-> 2]}

InitRoutes ==
  /\ \E st \in RouteStores :
       /\ companies = st.companies
       /\ jobs = st.jobs
       /\ nextId = st.nextId
  /\ call \in JobRequests

PostJob ==
  /\ call.op = "request"
  /\ call.route = "POST /jobs"
  /\ IF ~EnsureIsAdmin(call.locals)
       THEN /\ call' = Unauthorized(call)
            /\ UNCHANGED <<companies, jobs, nextId>>
       ELSE /\ CreateJob
            /\ call'.data = call.body

PatchJob ==
  /\ call.op = "request"
  /\ call.route = "PATCH /jobs/:id"
  /\ IF ~EnsureIsAdmin(call.locals)
       THEN /\ call' = Unauthorized(call)
            /\ UNCHANGED <<companies, jobs, nextId>>
       ELSE /\ UpdateJob
            /\ call'.key = call.key
            /\ call'.data = call.body

DeleteJob ==
  /\ call.op = "request"
  /\ call.route = "DELETE /jobs/:id"
  /\ IF ~EnsureIsAdmin(call.locals)
       THEN /\ call' = Unauthorized(call)
            /\ UNCHANGED <<companies, jobs, nextId>>
       ELSE /\ RemoveJob
            /\ call'.key = call.key

NextRoutes == PostJob \/ PatchJob \/ DeleteJob

SpecRoutes == InitRoutes /\ [][NextRoutes]_vars

-----------------------------------------------------------------------------
(* Properties of the builders, checked under SpecBuilder *)

PartialUpdateCalled == call.op = "sqlForPartialUpdate"
CompaniesWhereCalled == call.op = "_sqlForCompaniesWhere"

\* The column names a fragment for `field` can carry under table jsToSql: the
\* field's own name, an entry of the table, or the text of an inherited member.
ColumnsFor(jsToSql, field) ==
  {field} \cup {jsToSql[i].v.s : i \in 1..Len(jsToSql)}
          \cup {ObjectPrototype[i].v.s : i \in 1..Len(ObjectPrototype)}

\* C1: for a non-empty update mapping of N fields (a translation table being
\* passed), sqlForPartialUpdate returns N fragments "<column>"=$i, the i-th one
\* for the i-th field of the mapping, numbered 1..N, joined by ", ", and N
\* values, the i-th being the value of the i-th field.
C1_OneFragmentPerField ==
  (PartialUpdateCalled /\ Len(call.data) > 0 /\ call.jsToSql # NoTable) =>
    LET out == call.out
        N == Len(call.data)
    IN /\ out.kind = "ok"
       /\ Len(out.cols) = N
       /\ Len(out.values) = N
       /\ \A i \in 1..N :
            /\ \E c \in ColumnsFor(call.jsToSql, call.data[i].k) :
                 out.cols[i] = "\"" \o c \o "\"=$" \o ToString(i)
            /\ out.values[i] = call.data[i].v
       /\ out.setCols = Join(out.cols, ", ")

\* A three-field mapping has been built, the last fragment numbered $3.
C1_Witness ==
  /\ PartialUpdateCalled
  /\ Len(call.data) = 3
  /\ call.jsToSql = TestJsToSql
  /\ call.data[1].k = "age"
  /\ call.data[3].k = "firstName"
  /\ call.out.kind = "ok"
  /\ call.out.cols[3] = "\"first_name\"=$3"

\* The column the claim gives field `field`: the table's entry when the table
\* has one, the field's own name otherwise.
C3_ClaimedColumn(jsToSql, field) ==
  IF jsToSql # NoTable /\ HasOwn(jsToSql, field)
    THEN ToStr(OwnValue(jsToSql, field))
    ELSE field

\* C3 as stated: every call with a non-empty mapping succeeds, the table
\* passed or not, and fragment i names the table's entry for field i when the
\* table has one and the field's own name otherwise.
C3_ColumnDefaultsEvenWithoutTable ==
  (PartialUpdateCalled /\ Len(call.data) > 0) =>
    /\ call.out.kind = "ok"
    /\ \A i \in 1..Len(call.data) :
         call.out.cols[i] =
           "\"" \o C3_ClaimedColumn(call.jsToSql, call.data[i].k)
                \o "\"=$" \o ToString(i)

\* C3 amended: when a table is passed, fragment i names what the lookup
\* jsToSql[field] yields if that is truthy (an own entry, or a member the table
\* inherits from Object.prototype, such as constructor) and the field's own
\* name otherwise; when no table is passed, a call with a non-empty mapping
\* throws a TypeError instead of succeeding.
C3_ColumnDefaultsWhenTablePassed ==
  (PartialUpdateCalled /\ Len(call.data) > 0) =>
    IF call.jsToSql = NoTable
      THEN call.out.kind = "TypeError"
      ELSE
        /\ call.out.kind = "ok"
        /\ \A i \in 1..Len(call.data) :
             LET field == call.data[i].k
                 own == HasOwn(call.jsToSql, field)
                 inherited == ~own /\ field = "constructor"
                 column ==
                   IF own /\ OwnValue(call.jsToSql, field).s # ""
                     THEN OwnValue(call.jsToSql, field).s
                   ELSE IF inherited
                     THEN "function Object() { [native code] }"
                   ELSE field
             IN call.out.cols[i] =
                  "\"" \o column \o "\"=$" \o ToString(i)

\* A translated field and an untranslated one have been built with the
\* Company table.
C3_Witness ==
  /\ PartialUpdateCalled
  /\ call.jsToSql = CompanyJsToSql
  /\ call.out.kind = "ok"
  /\ call.out.setCols = "\"name\"=$1, \"num_employees\"=$2"

\* The predicate text and the bound value the Company filter gives key `key`
\* holding v at placeholder i.
C4_Predicate(key, i) ==
  CASE key = "nameLike" -> "name ILIKE $" \o ToString(i)
    [] key = "minEmployees" -> "num_employees >= $" \o ToString(i)
    [] key = "maxEmployees" -> "num_employees <= $" \o ToString(i)
C4_Bound(key, v) ==
  IF key = "nameLike" THEN Str("%" \o v.s \o "%") ELSE v

\* C4: for a filter whose keys are all recognised, _sqlForCompaniesWhere
\* returns "WHERE " and one predicate per key, in key order, joined by " AND "
\* and numbered 1..k, with k values in the same order, the nameLike value
\* wrapped in % and the numeric bounds unchanged; for the empty filter it
\* returns the empty clause and no values.
C4_RecognisedKeysClause ==
  (CompaniesWhereCalled
     /\ \A i \in 1..Len(call.data) : call.data[i].k \in CompanyFilterKeys) =>
    LET k == Len(call.data)
        out == call.out
    IN IF k = 0
         THEN out.whereCols = "" /\ out.values = <<>>
         ELSE
           /\ out.whereCols =
                "WHERE " \o Join([i \in 1..k |->
                                    C4_Predicate(call.data[i].k, i)], " AND ")
           /\ out.values =
                [i \in 1..k |-> C4_Bound(call.data[i].k, call.data[i].v)]

\* All three keys have been lowered, nameLike in the middle.
C4_Witness ==
  /\ CompaniesWhereCalled
  /\ call.out.whereCols =
       "WHERE num_employees >= $1 AND name ILIKE $2 AND num_employees <= $3"
  /\ call.out.values = <<Num(1), Str("%hall%"), Num(2)>>

IsCompanyFilterKey(p) == p.k \in CompanyFilterKeys

\* C5: for every filter, unrecognised keys mixed in at any position included,
\* the value list has as many entries as the clause has placeholders, and
\* entry i is the bound value of the predicate that uses $i (the i-th
\* recognised key of the filter).
C5_IndexValueAlignment ==
  CompaniesWhereCalled =>
    LET recognised == SelectSeq(call.data, IsCompanyFilterKey)
        out == call.out
    IN /\ Len(out.preds) = Len(recognised)
       /\ Len(out.values) = Len(out.preds)
       /\ \A i \in 1..Len(out.preds) :
            /\ out.preds[i].ph = i
            /\ out.values[i] = C4_Bound(recognised[i].k, recognised[i].v)

\* C18: _sqlForCompaniesWhere leaves the caller's filter object as it was
\* passed, and a second call on the same object returns the clause and the
\* values of the first call (nameLike wrapped in % once).
C18_FilterMappingUnchanged ==
  /\ CompaniesWhereCalled => call.out.dataToFilter = call.data
  /\ call.op = "_sqlForCompaniesWhere again" =>
       /\ call.out.dataToFilter = call.data
       /\ call.out.whereCols = call.first.whereCols
       /\ call.out.values = call.first.values

-----------------------------------------------------------------------------
(* Properties of the repositories, checked under Spec *)

StoreUnchanged == UNCHANGED <<companies, jobs, nextId>>

\* C2: updateJob(id, {}) and updateCompany(handle, {}) end with the builder's
\* BadRequestError ("No data"), whether or not the key exists, without a
\* statement having been sent, and the tables are as before the call.
C2_EmptyUpdateRejected ==
  [][(call'.op \in {"Company.update", "Job.update"} /\ call'.data = <<>>) =>
       /\ call'.kind = "BadRequestError"
       /\ call'.sent = <<>>
       /\ StoreUnchanged]_vars

\* Job 1 exists and has been updated with the empty mapping.
C2_Witness ==
  /\ call.op = "Job.update"
  /\ call.data = <<>>
  /\ call.key = Num(1)
  /\ \E j \in jobs : j.id = Num(1)
  /\ call.kind = "BadRequestError"

\* C6: Company.findAll throws BadRequestError whenever the filter holds both
\* minEmployees and maxEmployees (numbers) with minEmployees > maxEmployees, in
\* either key order and whatever else the filter holds; the check is made on
\* the filter as passed, before _sqlForCompaniesWhere runs (the filter is
\* still as passed), and no statement is sent.
C6_MinAboveMaxRejected ==
  (/\ call.op = "Company.findAll"
   /\ HasOwn(call.data, "minEmployees")
   /\ HasOwn(call.data, "maxEmployees")
   /\ OwnValue(call.data, "minEmployees").n
        > OwnValue(call.data, "maxEmployees").n) =>
    /\ call.kind = "BadRequestError"
    /\ ~call.built
    /\ call.after = call.data
    /\ call.sent = <<>>

\* A crossed filter that also holds nameLike has been rejected while a company
\* that nameLike matches is stored.
C6_Witness ==
  /\ call.op = "Company.findAll"
  /\ call.data = <<[k |-> "nameLike", v |-> Str("hall")],
                   [k |-> "minEmployees", v |-> Num(3)],
                   [k |-> "maxEmployees", v |-> Num(1)]>>
  /\ call.kind = "BadRequestError"
  /\ \E r \in companies : r.name = Str("Hall")

JobFilterKeys == {"title", "minSalary", "hasEquity"}

\* C7: Job.findAll ends with BadRequestError for every filter that holds a
\* key outside {title, minSalary, hasEquity} and for every filter whose
\* minSalary is negative.
C7_InvalidJobFilterRejected ==
  (/\ call.op = "Job.findAll"
   /\ \/ \E i \in 1..Len(call.data) : call.data[i].k \notin JobFilterKeys
      \/ /\ HasOwn(call.data, "minSalary")
         /\ OwnValue(call.data, "minSalary").n < 0) =>
    call.kind = "BadRequestError"

\* `part` occurs in `text`, letter case aside.
C8_Contains(text, part) ==
  \E i \in 1..(Len(text) - Len(part) + 1) :
    SubSeq(Lower(text), i, i + Len(part) - 1) = Lower(part)

\* A decimal string above zero: one of its digits is not 0.
C8_Positive(decimal) ==
  \E i \in 1..Len(decimal) :
    SubSeq(decimal, i, i) \in {"1", "2", "3", "4", "5", "6", "7", "8", "9"}

\* Job row j satisfies every key of the filter.
C8_Satisfies(j, filter) ==
  /\ HasOwn(filter, "title") =>
       C8_Contains(j.title.s, OwnValue(filter, "title").s)
  /\ HasOwn(filter, "minSalary") =>
       j.salary.t = "num" /\ j.salary.n >= OwnValue(filter, "minSalary").n
  /\ (HasOwn(filter, "hasEquity") /\ OwnValue(filter, "hasEquity").b) =>
       j.equity.t = "str" /\ C8_Positive(j.equity.s)

\* C8: for a valid Job filter, Job.findAll returns exactly the stored jobs
\* that satisfy all the keys supplied.
C8_JobFilterApplied ==
  (/\ call.op = "Job.findAll"
   /\ \A i \in 1..Len(call.data) : call.data[i].k \in JobFilterKeys
   /\ HasOwn(call.data, "minSalary") =>
        OwnValue(call.data, "minSalary").n >= 0) =>
    /\ call.kind = "ok"
    /\ Range(call.rows) =
         {JobShape(j) : j \in {x \in jobs : C8_Satisfies(x, call.data)}}

\* C9: Job.update ends with BadRequestError, before sqlForPartialUpdate is
\* called and without a statement sent, whenever the mapping holds the key id
\* or the key companyHandle.
C9_JobKeyFieldsRejected ==
  (/\ call.op = "Job.update"
   /\ HasOwn(call.data, "id") \/ HasOwn(call.data, "companyHandle")) =>
    /\ call.kind = "BadRequestError"
    /\ ~call.built
    /\ call.sent = <<>>

\* C10: a company's handle never changes: after a Company.update every handle
\* that was stored is still stored.
C10_HandleNeverChanges ==
  [][call'.op = "Company.update" =>
       {r.handle : r \in companies} \subseteq {r.handle : r \in companies'}]_vars

\* The error kind the repositories throw for what the interface calls
\* InvalidInput (an empty mapping, a crossed filter, a missing company).
C11_InvalidInputKind == "BadRequestError"

\* C11 as stated: Company.create with a handle already stored ends with an
\* error of a kind of its own (Conflict), not the InvalidInput kind, after the
\* lookup alone, the table unchanged; with a fresh handle it inserts one row
\* and returns it.
C11_DuplicateIsConflict ==
  [][call'.op = "Company.create" =>
       IF \E r \in companies : r.handle = call'.key
         THEN /\ call'.kind \notin {"ok", C11_InvalidInputKind}
              /\ Len(call'.sent) = 1
              /\ companies' = companies
         ELSE /\ call'.kind = "ok"
              /\ companies \subseteq companies'
              /\ Cardinality(companies' \ companies) = 1]_vars

\* C11 amended: Company.create with a handle already stored ends with
\* BadRequestError, the same kind as InvalidInput, after the lookup alone (the
\* INSERT is not sent) and the companies table is unchanged; with a fresh
\* handle it sends lookup and INSERT, adds exactly one row, holding the input's
\* fields, keeps every other row, and returns that row.
C11_DuplicateIsBadRequest ==
  [][call'.op = "Company.create" =>
       IF \E r \in companies : r.handle = call'.key
         THEN /\ call'.kind = C11_InvalidInputKind
              /\ Len(call'.sent) = 1
              /\ call'.rows = <<>>
              /\ companies' = companies
         ELSE /\ call'.kind = "ok"
              /\ Len(call'.sent) = 2
              /\ companies \subseteq companies'
              /\ Cardinality(companies' \ companies) = 1
              /\ \A r \in companies' \ companies :
                   /\ CompanyShape(r) = call'.data
                   /\ call'.rows = <<CompanyShape(r)>>
              /\ UNCHANGED <<jobs, nextId>>]_vars

\* A create of handle c1 has been rejected while the stored c1 holds other
\* fields (it was updated since its creation), and the stored row is as it was.
C11_Witness ==
  /\ call.op = "Company.create"
  /\ call.kind = "BadRequestError"
  /\ call.data.name = Str("Hall")
  /\ call.key = Str("c1")
  /\ \E r \in companies :
       /\ r.handle = Str("c1")
       /\ r.name = Str("Bauer")
       /\ r.num_employees = Null

\* C12: Job.create with a companyHandle that no stored company has ends with
\* BadRequestError (InvalidInput) after the lookup alone and the jobs table is
\* unchanged; with a stored company's handle it adds exactly one job row,
\* keeps every other row, and returns that row: its id is assigned by the
\* store and is the id of no job stored before, and its title, salary, equity
\* and companyHandle are the input's.
C12_CreateJobOutcome ==
  [][call'.op = "Job.create" =>
       IF ~\E c \in companies : c.handle = call'.data.companyHandle
         THEN /\ call'.kind = "BadRequestError"
              /\ Len(call'.sent) = 1
              /\ call'.rows = <<>>
              /\ jobs' = jobs
         ELSE /\ call'.kind = "ok"
              /\ jobs \subseteq jobs'
              /\ Cardinality(jobs' \ jobs) = 1
              /\ \A r \in jobs' \ jobs :
                   /\ r.id \notin {j.id : j \in jobs}
                   /\ r.id.t = "num"
                   /\ call'.rows =
                        <<[id |-> r.id,
                           title |-> call'.data.title,
                           salary |-> call'.data.salary,
                           equity |-> call'.data.equity,
                           companyHandle |-> call'.data.companyHandle]>>
              /\ companies' = companies]_vars

\* A second job has been created, with id 2, while job 1 is stored.
C12_Witness ==
  /\ call.op = "Job.create"
  /\ call.kind = "ok"
  /\ call.rows[1].id = Num(2)
  /\ call.rows[1].companyHandle = call.data.companyHandle
  /\ \E j \in jobs : j.id = Num(1)

\* The fields an update may set.
C13_UpdatableFields(op) ==
  IF op = "Company.update"
    THEN {"name", "description", "numEmployees", "logoUrl"}
    ELSE {"title", "salary", "equity"}

\* The call recorded in c is a get, an update with a non-empty mapping of
\* updatable fields, or a remove.
C13_KeyedCall(c) ==
  \/ c.op \in {"Company.get", "Company.remove", "Job.get", "Job.remove"}
  \/ /\ c.op \in {"Company.update", "Job.update"}
     /\ Len(c.data) > 0
     /\ \A i \in 1..Len(c.data) : c.data[i].k \in C13_UpdatableFields(c.op)

\* The keys the table of the call's entity holds.
C13_StoredKeys(op, cs, js) ==
  IF op \in {"Company.get", "Company.update", "Company.remove"}
    THEN {r.handle : r \in cs}
    ELSE {j.id : j \in js}

\* C13: for both entities, get, update (non-empty mapping of updatable fields)
\* and remove with a key no stored row has end with NotFoundError and leave
\* both tables as they were; and a successful remove leaves no row with its
\* key, so these calls keep ending with NotFoundError for that key until a row
\* with it is created again.
C13_MissingKeyNotFound ==
  [][/\ (/\ C13_KeyedCall(call')
         /\ call'.key \notin C13_StoredKeys(call'.op, companies, jobs)) =>
          /\ call'.kind = "NotFoundError"
          /\ call'.rows = <<>>
          /\ StoreUnchanged
     /\ (call'.op \in {"Company.remove", "Job.remove"} /\ call'.kind = "ok") =>
          /\ call'.key \in C13_StoredKeys(call'.op, companies, jobs)
          /\ call'.key \notin C13_StoredKeys(call'.op, companies', jobs')]_vars

\* Job 1 was created and removed, and an update of job 1 has then ended with
\* NotFoundError.
C13_Witness ==
  /\ call.op = "Job.update"
  /\ call.key = Num(1)
  /\ call.kind = "NotFoundError"
  /\ nextId > 1
  /\ ~\E j \in jobs : j.id = Num(1)

\* The physical column of an updatable logical field.
C14_ColumnOf(field) ==
  CASE field = "numEmployees" -> "num_employees"
    [] field = "logoUrl" -> "logo_url"
    [] OTHER -> field

\* Row `after` is row `before` with exactly the fields of mapping `data`
\* overwritten by the mapping's values.
C14_Overwritten(before, after, data, columns) ==
  \A c \in columns :
    IF \E i \in 1..Len(data) : C14_ColumnOf(data[i].k) = c
      THEN \E i \in 1..Len(data) :
             C14_ColumnOf(data[i].k) = c /\ after[c] = data[i].v
      ELSE after[c] = before[c]

\* C14: a successful Company.update or Job.update found exactly one row with
\* the key; it replaces that row by a row in which every field of the mapping
\* holds the mapping's value (null included) and every other field is as it
\* was, leaves every other row and the other table unchanged, and returns the
\* row as it is stored after the update.
C14_PartialUpdateFrame ==
  [][(call'.op \in {"Company.update", "Job.update"} /\ call'.kind = "ok") =>
       IF call'.op = "Company.update"
         THEN
           /\ \E r \in companies :
                /\ r.handle = call'.key
                /\ \E n \in companies' :
                     /\ companies' = (companies \ {r}) \cup {n}
                     /\ C14_Overwritten(r, n, call'.data, CompanyColumns)
                     /\ call'.rows = <<CompanyShape(n)>>
           /\ UNCHANGED <<jobs, nextId>>
         ELSE
           /\ \E r \in jobs :
                /\ r.id = call'.key
                /\ \E n \in jobs' :
                     /\ jobs' = (jobs \ {r}) \cup {n}
                     /\ C14_Overwritten(r, n, call'.data, JobColumns)
                     /\ call'.rows = <<JobShape(n)>>
           /\ UNCHANGED <<companies, nextId>>]_vars

\* Job 1 has been updated with null salary and equity, its row now holds
\* nulls and its title, and job 2 is stored beside it.
C14_Witness ==
  /\ call.op = "Job.update"
  /\ call.kind = "ok"
  /\ call.rows[1].salary = Null
  /\ \E j \in jobs :
       /\ j.id = Num(1)
       /\ j.salary = Null
       /\ j.equity = Null
       /\ j.title = Str("j1")
  /\ \E j \in jobs : j.id = Num(2) /\ j.salary # Null

\* The number a one-digit numeral denotes (0 for any other character).
C17_Digit(c) ==
  CASE c = "1" -> 1 [] c = "2" -> 2 [] c = "3" -> 3 [] c = "4" -> 4
    [] c = "5" -> 5 [] c = "6" -> 6 [] c = "7" -> 7 [] c = "8" -> 8
    [] c = "9" -> 9 [] OTHER -> 0

\* The placeholder numbers of a statement text, in the order they occur.
C17_Placeholders(text) ==
  LET at == {i \in 1..(Len(text) - 1) : SubSeq(text, i, i) = "$"}
      nth(k) == CHOOSE i \in at : Cardinality({j \in at : j < i}) = k - 1
  IN [k \in 1..Cardinality(at) |->
        C17_Digit(SubSeq(text, nth(k) + 1, nth(k) + 1))]

\* `part` occurs in `text`.
C17_Occurs(text, part) ==
  \E i \in 1..(Len(text) - Len(part) + 1) :
    SubSeq(text, i, i + Len(part) - 1) = part

\* C17: the statement Company.update or Job.update sends for a mapping of N
\* fields has the placeholders $1..$N in its assignments and $(N+1) in its
\* key predicate, each once (N+1 placeholders in all), and is bound to N+1
\* values: the mapping's values in order, then the key.
C17_KeyPlaceholderIsNext ==
  (call.op \in {"Company.update", "Job.update"} /\ call.sent # <<>>) =>
    LET st == call.sent[1]
        N == Len(call.data)
        keyCol == IF call.op = "Company.update" THEN "handle" ELSE "id"
    IN /\ Len(call.sent) = 1
       /\ N > 0
       /\ C17_Placeholders(st.text) = [i \in 1..(N + 1) |-> i]
       /\ C17_Occurs(st.text, " WHERE " \o keyCol \o " = $"
                                \o ToString(N + 1) \o " RETURNING ")
       /\ Len(st.values) = N + 1
       /\ st.values[N + 1] = call.key
       /\ \A i \in 1..N : st.values[i] = call.data[i].v

\* Company c1 has been updated with two fields: the key is the third value,
\* under $3.
C17_Witness ==
  /\ call.op = "Company.update"
  /\ call.kind = "ok"
  /\ Len(call.data) = 2
  /\ call.sent[1].values[3] = Str("c1")
  /\ C17_Occurs(call.sent[1].text, "\"num_employees\"=$2 WHERE handle = $3")

-----------------------------------------------------------------------------
(* Properties of concurrent Company.create calls, checked under SpecRace *)

C15_SameHandle ==
  /\ call.op = "race"
  /\ call.procs[1].data.handle = call.procs[2].data.handle

\* Every lookup that has run ran before every INSERT that has run.
C15_LookupsBeforeInserts ==
  \A p, q \in Callers :
    /\ call.procs[p].lookupAt > 0
    /\ call.procs[q].insertAt > 0 =>
         call.procs[p].lookupAt < call.procs[q].insertAt

-----------------------------------------------------------------------------
(* Properties of the guarded job routes, checked under SpecRoutes *)

\* The request carries an identity whose isAdmin flag is true.
C16_IsAdmin(locals) ==
  \E i \in 1..Len(locals) :
    /\ locals[i].k = "user"
    /\ locals[i].v.t = "obj"
    /\ \E j \in 1..Len(locals[i].v.o) :
         locals[i].v.o[j] = [k |-> "isAdmin", v |-> Bool(TRUE)]

\* C16: a mutating job request reaches the repository only when its identity
\* is present with isAdmin true; a request from an anonymous caller or from a
\* user who is not an admin is answered with UnauthorizedError (401), no
\* repository method runs and the tables are unchanged.
C16_NonAdminUnauthorized ==
  [][call.op = "request" =>
       IF C16_IsAdmin(call.locals)
         THEN call'.op \in {"Job.create", "Job.update", "Job.remove"}
         ELSE /\ call'.op = "response"
              /\ call'.status = 401
              /\ call'.kind = "UnauthorizedError"
              /\ StoreUnchanged]_vars

\* A logged-in user who is not an admin asked to delete the stored job 1, was
\* answered 401, and job 1 is still stored.
C16_Witness ==
  /\ call.op = "response"
  /\ call.status = 401
  /\ call.request.route = "DELETE /jobs/:id"
  /\ call.request.key = Num(1)
  /\ GetProp(call.request.locals, "user").t = "obj"
  /\ GetProp(GetProp(call.request.locals, "user").o, "isAdmin") = Bool(FALSE)
  /\ \E j \in jobs : j.id = Num(1)

====
